---- MODULE Spec2Model ----
(***************************************************************************)
(* A model of Tasks/04/solution.py: the CodeErrors message formatters, the *)
(* CodeAnalyzer checks (line_length, forbid_semicolons, max_nesting,       *)
(* indentation_size and the four stubs), CodeAnalyzer.analyze and critic.  *)
(*                                                                         *)
(* The inputs are small Python programs made of `if a:` / `elif a:` /      *)
(* `else:` headers, expression statements `x`, `x; x`, ... (with a name    *)
(* long enough to reach a chosen line length) and `f = lambda: 0`.  Each   *)
(* program gives the source text (self.code) and the tree ast.parse        *)
(* builds from it (self.parsed_code).                                      *)
(***************************************************************************)
EXTENDS Integers, Sequences, FiniteSets, TLC

VARIABLES code, parsed_code, kwargs, rules, issues, pc, todo, exc, last_call

vars == <<code, parsed_code, kwargs, rules, issues, pc, todo, exc, last_call>>

(***************************************************************************)
(* Bounds of the input programs: the most lines a program has.             *)
(***************************************************************************)
MaxLines == 4

\* The longest program analyzed with rules passed.
MaxRuleLines == 2

(***************************************************************************)
(* Program constants.                                                      *)
(***************************************************************************)
line_length_default == 79

indentation_size_default == 4

max_nesting_level == 3

\* The value None (a formatter whose guard is false returns it).
None == "None"

(***************************************************************************)
(* CodeErrors: the message formatters.                                     *)
(***************************************************************************)
line_too_long(actual, allowed) ==
    IF actual > allowed
    THEN "line too long (" \o ToString(actual) \o " > " \o ToString(allowed) \o ")"
    ELSE None

multiple_expressions == "multiple expressions on the same line"

nesting_too_deep(actual, allowed) ==
    IF actual > allowed
    THEN "nesting too deep (" \o ToString(actual) \o " > " \o ToString(allowed) \o ")"
    ELSE None

\* indentation with its guard turned round.
indentation_guard_swapped(actual, allowed) ==
    IF allowed > actual
    THEN "indentation is " \o ToString(actual) \o " instead of " \o ToString(allowed)
    ELSE None

indentation(actual, allowed) ==
    IF actual > allowed
    THEN "indentation is " \o ToString(actual) \o " instead of " \o ToString(allowed)
    ELSE None

(***************************************************************************)
(* The input programs, one record per physical line:                       *)
(*   indent  the number of leading spaces                                  *)
(*   kind    "if" | "elif" | "else" | "expr" | "lambda"                    *)
(*   semis   the number of `; x` that follow the first expression          *)
(*   width   the length of the first expression's name                     *)
(* "if", "elif" and "else" are the headers `if a:`, `elif a:` and `else:`; *)
(* "lambda" is the statement `f = lambda: 0`.                              *)
(***************************************************************************)
Headers == {"if", "elif", "else"}

\* A body is indented by the configured size, or by one column too many.
IndentSteps == {indentation_size_default, indentation_size_default + 1}

\* An expression line: how many `; x` follow, and the whole-line length the
\* name is stretched to (0: the name is `x`).
ExprVariants ==
    { [semis |-> 0, fill |-> 0],
      [semis |-> 1, fill |-> 0],
      [semis |-> 2, fill |-> 0],
      [semis |-> 0, fill |-> line_length_default],
      [semis |-> 0, fill |-> line_length_default + 1],
      [semis |-> 1, fill |-> line_length_default + 1] }

ExprLines(c) ==
    { [indent |-> c, kind |-> "expr", semis |-> v.semis,
       width |-> IF v.fill = 0 THEN 1 ELSE v.fill - c - 3 * v.semis] :
         v \in ExprVariants }

StmtLines(c) ==
    ExprLines(c) \cup
    { [indent |-> c, kind |-> k, semis |-> 0, width |-> 0] : k \in {"if", "lambda"} }

ClauseLines(c) ==
    { [indent |-> c, kind |-> k, semis |-> 0, width |-> 0] : k \in {"elif", "else"} }

\* The indentation levels of the blocks still open after the last line.
OpenIndents(ls) ==
    { ls[j].indent : j \in { i \in 1 .. Len(ls) :
                               \A m \in (i + 1) .. Len(ls) : ls[m].indent >= ls[i].indent } }

\* The last line at indentation c.
LastAt(ls, c) ==
    CHOOSE j \in 1 .. Len(ls) :
        /\ ls[j].indent = c
        /\ \A m \in (j + 1) .. Len(ls) : ls[m].indent # c

\* The lines that are not the plain statement `x`.
SpecialLines(ls) ==
    { i \in 1 .. Len(ls) : ls[i].kind = "lambda" \/ ls[i].semis > 0 \/ ls[i].width > 1 }

\* The lines that open a body indented by one column too many.
OverIndented(ls) ==
    { i \in 2 .. Len(ls) :
        /\ ls[i - 1].kind \in Headers
        /\ ls[i].indent - ls[i - 1].indent # indentation_size_default }

\* The programs one line longer than ls that Python's grammar accepts as a
\* prefix of a program.
Extensions(ls) ==
    IF ls = <<>>
    THEN { <<l>> : l \in StmtLines(0) }
    ELSE IF ls[Len(ls)].kind \in Headers
    THEN { Append(ls, l) :
             l \in UNION { StmtLines(ls[Len(ls)].indent + s) : s \in IndentSteps } }
    ELSE UNION { { Append(ls, l) :
                     l \in StmtLines(c) \cup
                           (IF ls[LastAt(ls, c)].kind \in {"if", "elif"}
                            THEN ClauseLines(c) ELSE {}) } :
                 c \in OpenIndents(ls) }

\* The prefixes of n lines with at most one special line and at most one
\* over-indented body.
RECURSIVE Prefixes(_)
Prefixes(n) ==
    IF n = 0 THEN { <<>> }
    ELSE { e \in UNION { Extensions(ls) : ls \in Prefixes(n - 1) } :
             /\ Cardinality(SpecialLines(e)) <= 1
             /\ Cardinality(OverIndented(e)) <= 1 }

\* The programs of at most n lines that ast.parse accepts: no header is left
\* without a body.
ProgramsUpTo(n) ==
    { p \in UNION { Prefixes(k) : k \in 0 .. n } :
        p = <<>> \/ p[Len(p)].kind \notin Headers }

\* `if a:` nested n deep around the statement `x`.
NestedIfs(n) ==
    [i \in 1 .. (n + 1) |->
        IF i <= n
        THEN [indent |-> indentation_size_default * (i - 1), kind |-> "if",
              semis |-> 0, width |-> 0]
        ELSE [indent |-> indentation_size_default * n, kind |-> "expr",
              semis |-> 0, width |-> 1]]

\* The programs analyzed: the short ones, and one nested deeper than
\* max_nesting sets as the limit.
Programs == ProgramsUpTo(MaxLines) \cup {NestedIfs(max_nesting_level + 1)}

(***************************************************************************)
(* The source text of a program: its lines joined by newlines, as a        *)
(* sequence of characters.                                                 *)
(***************************************************************************)
Repeat(ch, n) == [i \in 1 .. n |-> ch]

RECURSIVE Times(_, _)
Times(s, n) == IF n = 0 THEN <<>> ELSE s \o Times(s, n - 1)

LambdaText == <<"f", " ", "=", " ", "l", "a", "m", "b", "d", "a", ":", " ", "0">>

LineText(l) ==
    Repeat(" ", l.indent) \o
    CASE l.kind = "if"     -> <<"i", "f", " ", "a", ":">>
      [] l.kind = "elif"   -> <<"e", "l", "i", "f", " ", "a", ":">>
      [] l.kind = "else"   -> <<"e", "l", "s", "e", ":">>
      [] l.kind = "lambda" -> LambdaText
      [] l.kind = "expr"   -> Repeat("x", l.width) \o Times(<<";", " ", "x">>, l.semis)

RECURSIVE SourceText(_)
SourceText(p) ==
    IF p = <<>> THEN <<>>
    ELSE IF Len(p) = 1 THEN LineText(p[1])
    ELSE LineText(p[1]) \o <<"\n">> \o SourceText(Tail(p))

\* str.splitlines(): the lines of a text, without their line ends; a final
\* newline opens no further line.
splitlines(text) ==
    LET newlines == { i \in 1 .. Len(text) : text[i] = "\n" }
        \* the position of the k-th newline; 0 before the first, and one past
        \* the end of the text after the last
        Break(k) == IF k = 0 THEN 0
                    ELSE IF k > Cardinality(newlines) THEN Len(text) + 1
                    ELSE CHOOSE i \in newlines :
                            Cardinality({ j \in newlines : j < i }) = k - 1
        count == IF text = <<>> \/ text[Len(text)] = "\n"
                 THEN Cardinality(newlines)
                 ELSE Cardinality(newlines) + 1
    IN [k \in 1 .. count |-> SubSeq(text, Break(k - 1) + 1, Break(k) - 1)]

\* re.match in place of re.search: only a semicolon that starts the line counts.
re_match_semicolon(line) == Len(line) > 0 /\ line[1] = ";"

\* re.search('(;)', line): does the line hold a semicolon?
re_search_semicolon(line) == \E i \in 1 .. Len(line) : line[i] = ";"

(***************************************************************************)
(* The tree ast.parse builds.  A node is named <<line, slot>>: the k-th    *)
(* statement of line j is <<j, k>>, the Lambda of `f = lambda: 0` on line  *)
(* j is <<j, 2>>, and the Module is <<0, 0>>.  A node records its type,    *)
(* lineno, col_offset, its body (the statements of an If or Module; a      *)
(* Lambda's body is one expression, not a list) and its children in the    *)
(* order ast.iter_child_nodes yields them.  Leaf expressions (Name, Num,   *)
(* arguments, Load) have no `body` field and no children, and are left     *)
(* out.                                                                    *)
(***************************************************************************)
ModuleId == <<0, 0>>

\* node._fields, by node type.
Fields(type) ==
    CASE type = "Module" -> {"body"}
      [] type = "If"     -> {"test", "body", "orelse"}
      [] type = "Expr"   -> {"value"}
      [] type = "Assign" -> {"targets", "value"}
      [] type = "Lambda" -> {"args", "body"}

\* The statements that start on line j, in order.
StmtIds(p, j) ==
    CASE p[j].kind = "expr"             -> [k \in 1 .. (p[j].semis + 1) |-> <<j, k>>]
      [] p[j].kind \in {"if", "lambda"} -> << <<j, 1>> >>
      [] p[j].kind \in {"elif", "else"} -> <<>>

\* The first line after header line i that is not in its block.
BlockEnd(p, i) ==
    IF \E j \in (i + 1) .. Len(p) : p[j].indent <= p[i].indent
    THEN CHOOSE j \in (i + 1) .. Len(p) :
            /\ p[j].indent <= p[i].indent
            /\ \A m \in (i + 1) .. (j - 1) : p[m].indent > p[i].indent
    ELSE Len(p) + 1

\* The statements of lines from .. to - 1 that sit at indentation c.
RECURSIVE Collect(_, _, _, _)
Collect(p, from, to, c) ==
    IF from >= to THEN <<>>
    ELSE (IF p[from].indent = c THEN StmtIds(p, from) ELSE <<>>)
         \o Collect(p, from + 1, to, c)

Block(p, i) == Collect(p, i + 1, BlockEnd(p, i), p[i + 1].indent)

\* The orelse of the If on line i: the If of a following elif, or the
\* statements under a following else.
OrElse(p, i) ==
    LET e == BlockEnd(p, i) IN
    IF e <= Len(p) /\ p[e].indent = p[i].indent /\ p[e].kind = "elif"
    THEN << <<e, 1>> >>
    ELSE IF e <= Len(p) /\ p[e].indent = p[i].indent /\ p[e].kind = "else"
    THEN Block(p, e)
    ELSE <<>>

LineNodeIds(p, j) ==
    CASE p[j].kind = "expr"             -> { <<j, k>> : k \in 1 .. (p[j].semis + 1) }
      [] p[j].kind \in {"if", "elif"}   -> { <<j, 1>> }
      [] p[j].kind = "lambda"           -> { <<j, 1>>, <<j, 2>> }
      [] p[j].kind = "else"             -> {}

NodeIds(p) == {ModuleId} \cup UNION { LineNodeIds(p, j) : j \in 1 .. Len(p) }

Node(p, id) ==
    LET j == id[1]
        k == id[2]
    IN
    IF id = ModuleId
    THEN [type |-> "Module", lineno |-> 0, col_offset |-> 0,
          body |-> Collect(p, 1, Len(p) + 1, 0),
          children |-> Collect(p, 1, Len(p) + 1, 0)]
    ELSE IF p[j].kind \in {"if", "elif"}
    THEN [type |-> "If", lineno |-> j, col_offset |-> p[j].indent,
          body |-> Block(p, j),
          children |-> Block(p, j) \o OrElse(p, j)]
    ELSE IF p[j].kind = "lambda" /\ k = 1
    THEN [type |-> "Assign", lineno |-> j, col_offset |-> p[j].indent,
          body |-> <<>>, children |-> << <<j, 2>> >>]
    ELSE IF p[j].kind = "lambda"
    THEN [type |-> "Lambda", lineno |-> j, col_offset |-> p[j].indent + 4,
          body |-> <<>>, children |-> <<>>]
    ELSE [type |-> "Expr", lineno |-> j,
          col_offset |-> IF k = 1 THEN p[j].indent
                         ELSE p[j].indent + p[j].width + 2 + 3 * (k - 2),
          body |-> <<>>, children |-> <<>>]

\* ast.parse(code), for the code of program p.
Parse(p) == [id \in NodeIds(p) |-> Node(p, id)]

\* 'body' in node._fields
HasBodyField(tree, id) == "body" \in Fields(tree[id].type)

\* Is node.body a list (so that node.body[0] is its first statement)?
BodyIsList(tree, id) == tree[id].type \in {"Module", "If"}

\* ast.walk(node): the node and its descendants, breadth first.
RECURSIVE WalkQueue(_, _, _)
WalkQueue(tree, todoq, out) ==
    IF todoq = <<>> THEN out
    ELSE WalkQueue(tree, Tail(todoq) \o tree[Head(todoq)].children,
                   Append(out, Head(todoq)))

walk(tree, id) == WalkQueue(tree, <<id>>, <<>>)

(***************************************************************************)
(* self.issues, a defaultdict(set): a function from the line numbers that  *)
(* have been looked up to sets of messages.                                *)
(***************************************************************************)
EmptyIssues == [l \in {} |-> {}]

\* self.issues[lineno] = {message} in place of self.issues[lineno].add(message)
AddIssueOverwrite(iss, lineno, message) ==
    [l \in DOMAIN iss \cup {lineno} |-> IF l = lineno THEN {message} ELSE iss[l]]

\* self.issues[lineno].add(message)
AddIssue(iss, lineno, message) ==
    [l \in DOMAIN iss \cup {lineno} |->
        IF l = lineno
        THEN (IF l \in DOMAIN iss THEN iss[l] ELSE {}) \cup {message}
        ELSE iss[l]]

\* What a check leaves behind: the issues, and the exception it raised ("" when
\* it returned).
Returned(iss) == [issues |-> iss, exc |-> ""]

Raised(iss, e) == [issues |-> iss, exc |-> e]

(***************************************************************************)
(* CodeAnalyzer.RULES: each rule's default, None for a rule that is off.   *)
(***************************************************************************)
RuleNames ==
    {"line_length", "forbid_semicolons", "max_nesting", "indentation_size",
     "methods_per_class", "max_arity", "forbid_trailing_whitespace",
     "max_lines_per_function"}

RULES ==
    [r \in RuleNames |->
        CASE r = "line_length"      -> [none |-> FALSE, value |-> line_length_default]
          [] r = "indentation_size" -> [none |-> FALSE, value |-> indentation_size_default]
          [] r \in {"forbid_semicolons", "forbid_trailing_whitespace"}
                                    -> [none |-> FALSE, value |-> 1]
          [] OTHER                  -> [none |-> TRUE, value |-> 0]]

(***************************************************************************)
(* The checks.  Each takes the analyzer's text, tree and issues and gives  *)
(* the issues after the call and the exception raised, if any.             *)
(***************************************************************************)
\* line_length keyed by enumerate's index itself, not by lineno + 1.
RECURSIVE LineLengthLoopZeroBased(_, _, _, _)
LineLengthLoopZeroBased(lines, lineno, default_length, iss) ==
    IF lineno >= Len(lines) THEN iss
    ELSE LET length == Len(lines[lineno + 1]) IN
         LineLengthLoopZeroBased(lines, lineno + 1, default_length,
            IF length > default_length
            THEN AddIssue(iss, lineno, line_too_long(length, default_length))
            ELSE iss)

\* The loop of line_length over enumerate(lines), from index lineno on.
RECURSIVE LineLengthLoop(_, _, _, _)
LineLengthLoop(lines, lineno, default_length, iss) ==
    IF lineno >= Len(lines) THEN iss
    ELSE LET length == Len(lines[lineno + 1]) IN
         LineLengthLoop(lines, lineno + 1, default_length,
            IF length > default_length
            THEN AddIssue(iss, lineno + 1, line_too_long(length, default_length))
            ELSE iss)

line_length(text, tree, iss) ==
    Returned(LineLengthLoop(splitlines(text), 0, RULES["line_length"].value, iss))

\* The loop of forbid_semicolons over enumerate(lines), from index lineno on.
RECURSIVE SemicolonLoop(_, _, _)
SemicolonLoop(lines, lineno, iss) ==
    IF lineno >= Len(lines) THEN iss
    ELSE SemicolonLoop(lines, lineno + 1,
            IF re_search_semicolon(lines[lineno + 1])
            THEN AddIssue(iss, lineno + 1, multiple_expressions)
            ELSE iss)

forbid_semicolons(text, tree, iss) == Returned(SemicolonLoop(splitlines(text), 0, iss))

\* The nodes of a walk that have a `body` field, in walk order.
BodyNodes(tree, id) == SelectSeq(walk(tree, id), LAMBDA n : HasBodyField(tree, n))

\* max_nesting walking the whole module, not its first statement.
max_nesting_whole_module(text, tree, iss) ==
    IF tree[ModuleId].body = <<>>
    THEN Raised(iss, "IndexError")
    ELSE LET nodes == BodyNodes(tree, ModuleId)
             nesting_level == Len(nodes)
         IN
         IF nesting_level > max_nesting_level
         THEN Returned(AddIssue(iss, tree[nodes[Len(nodes)]].lineno + 1,
                                nesting_too_deep(nesting_level, max_nesting_level)))
         ELSE Returned(iss)

max_nesting(text, tree, iss) ==
    IF tree[ModuleId].body = <<>>
    THEN Raised(iss, "IndexError")
    ELSE LET nodes == BodyNodes(tree, tree[ModuleId].body[1])
             nesting_level == Len(nodes)
         IN
         IF nesting_level > max_nesting_level
         THEN Returned(AddIssue(iss, tree[nodes[Len(nodes)]].lineno + 1,
                                nesting_too_deep(nesting_level, max_nesting_level)))
         ELSE Returned(iss)

\* The loop of indentation_size over the walk, from its i-th node on.
RECURSIVE IndentationLoop(_, _, _, _, _, _)
IndentationLoop(tree, nodes, i, last_offset, indent, iss) ==
    IF i > Len(nodes) THEN Returned(iss)
    ELSE IF ~HasBodyField(tree, nodes[i])
    THEN IndentationLoop(tree, nodes, i + 1, last_offset, indent, iss)
    ELSE IF ~BodyIsList(tree, nodes[i])
    THEN Raised(iss, "TypeError")
    ELSE IF tree[nodes[i]].body = <<>>
    THEN Raised(iss, "IndexError")
    ELSE LET first == tree[tree[nodes[i]].body[1]]
             lineno == first.lineno
             col_offset == first.col_offset
         IN
         IndentationLoop(tree, nodes, i + 1, col_offset, indent,
            IF col_offset > last_offset + indent
            THEN AddIssue(iss, lineno, indentation(col_offset - last_offset, indent))
            ELSE iss)

indentation_size(text, tree, iss) ==
    IndentationLoop(tree, walk(tree, ModuleId), 1, 0, RULES["indentation_size"].value, iss)

methods_per_class(text, tree, iss) == Returned(iss)

max_arity(text, tree, iss) == Returned(iss)

forbid_trailing_whitespace(text, tree, iss) == Returned(iss)

max_lines_per_function(text, tree, iss) == Returned(iss)

(***************************************************************************)
(* The rules a caller passes.  A dict is a function from its keys;         *)
(* self.rules is None or a dict.                                           *)
(***************************************************************************)
EmptyDict == [k \in {} |-> 0]

\* Rules a caller may pass: a known rule, an unknown one, or both.
RuleDicts ==
    { [k \in {"max_nesting"} |-> 1],
      [k \in {"tab_width"} |-> 1],
      [k \in {"max_nesting", "tab_width"} |-> 1] }

NoRules == [none |-> TRUE, dict |-> EmptyDict]

SomeRules(d) == [none |-> FALSE, dict |-> d]

\* `not self.rules`: None and the empty dict are false.
Falsy(r) == r.none \/ DOMAIN r.dict = {}

(***************************************************************************)
(* get_instance_methods: the callable attributes of the class whose names  *)
(* do not start with two underscores.                                      *)
(***************************************************************************)
ClassDir ==
    {"RULES", "__init__", "analyze", "get_instance_methods"} \cup RuleNames

IsCallable(name) == name # "RULES"

StartsWithDunder(name) == name = "__init__"

get_instance_methods ==
    { method \in ClassDir : IsCallable(method) /\ ~StartsWithDunder(method) }

\* The methods analyze calls.
AnalyzeMethods == (get_instance_methods \ {"analyze"}) \ {"get_instance_methods"}

\* getattr(type(self), method)(self)
CallMethod(method, text, tree, iss) ==
    CASE method = "line_length"                -> line_length(text, tree, iss)
      [] method = "forbid_semicolons"          -> forbid_semicolons(text, tree, iss)
      [] method = "max_nesting"                -> max_nesting(text, tree, iss)
      [] method = "indentation_size"           -> indentation_size(text, tree, iss)
      [] method = "methods_per_class"          -> methods_per_class(text, tree, iss)
      [] method = "max_arity"                  -> max_arity(text, tree, iss)
      [] method = "forbid_trailing_whitespace" -> forbid_trailing_whitespace(text, tree, iss)
      [] method = "max_lines_per_function"     -> max_lines_per_function(text, tree, iss)

(***************************************************************************)
(* The state machine.                                                      *)
(*   code, parsed_code, rules, issues   the analyzer's attributes          *)
(*   kwargs   the rules the caller passed (to critic or to CodeAnalyzer)   *)
(*   pc = "constructed"  __init__ has run                                  *)
(*   pc = "analyzing"    analyze is in its loop; todo holds the methods it *)
(*                       has still to call                                 *)
(*   pc = "returned"     analyze returned self.issues                      *)
(*   pc = "raised"       analyze was left by the exception exc             *)
(*   exc      the exception the last call raised ("" when it returned)     *)
(***************************************************************************)
\* CodeAnalyzer.__init__(code, rules) for the code of program p.
Constructed(p, kw, r) ==
    /\ code = SourceText(p)
    /\ parsed_code = Parse(p)
    /\ kwargs = kw
    /\ rules = r
    /\ issues = EmptyIssues
    /\ pc = "constructed"
    /\ todo = {}
    /\ exc = ""
    /\ last_call = None

\* critic(code): CodeAnalyzer(code), no rules passed.
Init == \E p \in Programs : Constructed(p, EmptyDict, NoRules)

\* critic(code, **rules) builds CodeAnalyzer(code): the rules are not handed
\* on.  A caller may also build CodeAnalyzer(code, rules) itself.
InitRules ==
    \E p \in ProgramsUpTo(MaxRuleLines), kw \in RuleDicts :
        \/ Constructed(p, kw, NoRules)
        \/ Constructed(p, kw, SomeRules(kw))

\* analyze, up to its loop: with rules given it calls no method at all.
analyze ==
    /\ pc = "constructed"
    /\ IF Falsy(rules)
       THEN pc' = "analyzing" /\ todo' = AnalyzeMethods
       ELSE pc' = "returned" /\ todo' = {}
    /\ UNCHANGED <<code, parsed_code, kwargs, rules, issues, exc, last_call>>

\* One turn of analyze's loop: the set of methods is iterated in no particular
\* order.  An exception leaves analyze.
LoopCall(method) ==
    /\ pc = "analyzing"
    /\ method \in todo
    /\ LET r == CallMethod(method, code, parsed_code, issues) IN
       /\ issues' = r.issues
       /\ exc' = r.exc
       /\ pc' = IF r.exc = "" THEN "analyzing" ELSE "raised"
    /\ todo' = todo \ {method}
    /\ UNCHANGED <<code, parsed_code, kwargs, rules, last_call>>

call_line_length ==
    /\ "line_length" \in todo
    /\ LoopCall("line_length")

call_forbid_semicolons ==
    /\ "forbid_semicolons" \in todo
    /\ LoopCall("forbid_semicolons")

call_max_nesting ==
    /\ "max_nesting" \in todo
    /\ LoopCall("max_nesting")

call_indentation_size ==
    /\ "indentation_size" \in todo
    /\ LoopCall("indentation_size")

call_methods_per_class ==
    /\ "methods_per_class" \in todo
    /\ LoopCall("methods_per_class")

call_max_arity ==
    /\ "max_arity" \in todo
    /\ LoopCall("max_arity")

call_forbid_trailing_whitespace ==
    /\ "forbid_trailing_whitespace" \in todo
    /\ LoopCall("forbid_trailing_whitespace")

call_max_lines_per_function ==
    /\ "max_lines_per_function" \in todo
    /\ LoopCall("max_lines_per_function")

\* analyze's `return self.issues`.
analyze_return ==
    /\ pc = "analyzing"
    /\ todo = {}
    /\ pc' = "returned"
    /\ UNCHANGED <<code, parsed_code, kwargs, rules, issues, todo, exc, last_call>>

Next ==
    \/ analyze
    \/ call_line_length
    \/ call_forbid_semicolons
    \/ call_max_nesting
    \/ call_indentation_size
    \/ call_methods_per_class
    \/ call_max_arity
    \/ call_forbid_trailing_whitespace
    \/ call_max_lines_per_function
    \/ analyze_return

\* critic(code).
Spec == Init /\ [][Next]_vars

\* critic(code, **rules) and CodeAnalyzer(code, rules).analyze().
SpecRules == InitRules /\ [][Next]_vars

(***************************************************************************)
(* A check invoked on its own, on an analyzer that is not analyzing: any   *)
(* check, any number of times, in any order.  last_call is the method the  *)
(* caller invoked last, and exc the exception that call raised, if any.    *)
(***************************************************************************)
Invoke(method) ==
    /\ pc = "constructed"
    /\ LET r == CallMethod(method, code, parsed_code, issues) IN
       /\ issues' = r.issues
       /\ exc' = r.exc
    /\ last_call' = method
    /\ UNCHANGED <<code, parsed_code, kwargs, rules, pc, todo>>

invoke_line_length ==
    /\ "line_length" \in get_instance_methods
    /\ Invoke("line_length")

invoke_forbid_semicolons ==
    /\ "forbid_semicolons" \in get_instance_methods
    /\ Invoke("forbid_semicolons")

invoke_max_nesting ==
    /\ "max_nesting" \in get_instance_methods
    /\ Invoke("max_nesting")

invoke_indentation_size ==
    /\ "indentation_size" \in get_instance_methods
    /\ Invoke("indentation_size")

invoke_methods_per_class ==
    /\ "methods_per_class" \in get_instance_methods
    /\ Invoke("methods_per_class")

invoke_max_arity ==
    /\ "max_arity" \in get_instance_methods
    /\ Invoke("max_arity")

invoke_forbid_trailing_whitespace ==
    /\ "forbid_trailing_whitespace" \in get_instance_methods
    /\ Invoke("forbid_trailing_whitespace")

invoke_max_lines_per_function ==
    /\ "max_lines_per_function" \in get_instance_methods
    /\ Invoke("max_lines_per_function")

NextChecks ==
    \/ invoke_line_length
    \/ invoke_forbid_semicolons
    \/ invoke_max_nesting
    \/ invoke_indentation_size
    \/ invoke_methods_per_class
    \/ invoke_max_arity
    \/ invoke_forbid_trailing_whitespace
    \/ invoke_max_lines_per_function

SpecChecks == Init /\ [][NextChecks]_vars

(***************************************************************************)
(* The notions the properties below are stated with.                       *)
(***************************************************************************)
Lines == splitlines(code)

IssuesAt(iss, l) == IF l \in DOMAIN iss THEN iss[l] ELSE {}

Messages(iss) == UNION { iss[l] : l \in DOMAIN iss }

\* No number in a message exceeds the length of the text plus one.
Numbers == 0 .. (Len(code) + 1)

NodeNumbers == 0 .. Cardinality(DOMAIN parsed_code)

LineTooLongMessages ==
    { "line too long (" \o ToString(a) \o " > 79)" : a \in Numbers }

SemicolonMessage == "multiple expressions on the same line"

NestingMessages ==
    { "nesting too deep (" \o ToString(a) \o " > " \o ToString(b) \o ")" :
        a \in NodeNumbers, b \in NodeNumbers }

IndentationMessages ==
    { "indentation is " \o ToString(d) \o " instead of 4" : d \in Numbers }

EmptySource == code = <<>> /\ parsed_code[ModuleId].body = <<>>

Finished == pc \in {"returned", "raised"}

(***************************************************************************)
(* C1.  For empty source text analyze returns an empty issue mapping and   *)
(* raises no error: it is never left by an exception, and no issue is ever *)
(* recorded.                                                               *)
(***************************************************************************)
C1_EmptySourceNoIssueNoError ==
    EmptySource => pc # "raised" /\ exc = "" /\ issues = EmptyIssues

(***************************************************************************)
(* C2.  Under the default rules max_nesting is off (RULES holds None for   *)
(* it), so the nesting check never fires: the issue mapping holds no       *)
(* 'nesting too deep' message, whatever the tree.                          *)
(***************************************************************************)
C2_NestingOffByDefault ==
    pc = "returned" /\ Falsy(rules) /\ RULES["max_nesting"].none
        => Messages(issues) \cap NestingMessages = {}

(***************************************************************************)
(* C3.  analyze is order-insensitive: in whatever order the loop calls the *)
(* methods, analyze ends as it does when it calls them in one fixed order  *)
(* (returning the same mapping, or raising the same exception).            *)
(***************************************************************************)
FixedOrder ==
    <<"line_length", "forbid_semicolons", "max_nesting", "indentation_size",
      "methods_per_class", "max_arity", "forbid_trailing_whitespace",
      "max_lines_per_function">>

\* analyze's loop over the methods order[i .. ], starting with the issues iss.
RECURSIVE RunInOrder(_, _, _)
RunInOrder(order, i, iss) ==
    IF i > Len(order) THEN [result |-> "returned", issues |-> iss, exc |-> ""]
    ELSE LET r == CallMethod(order[i], code, parsed_code, iss) IN
         IF r.exc # "" THEN [result |-> "raised", issues |-> EmptyIssues, exc |-> r.exc]
         ELSE RunInOrder(order, i + 1, r.issues)

\* What the caller of analyze gets: the mapping, or the exception.
Outcome ==
    IF pc = "returned" THEN [result |-> "returned", issues |-> issues, exc |-> ""]
    ELSE [result |-> "raised", issues |-> EmptyIssues, exc |-> exc]

C3_AnalyzeOrderInsensitive ==
    Finished /\ Falsy(rules) => Outcome = RunInOrder(FixedOrder, 1, EmptyIssues)

\* analyze has returned a mapping in which one line holds several messages.
C3_Witness ==
    pc = "returned" /\ \E l \in DOMAIN issues : Cardinality(issues[l]) >= 2

(***************************************************************************)
(* C4.  Indentation boundary, measured against the statement that          *)
(* introduces the body: after the indentation check, a body whose first    *)
(* statement is indented exactly 4 columns more than its enclosing         *)
(* statement has no indentation issue at that statement's line, and one    *)
(* indented 5 columns more has exactly one.  It is stated for the runs of  *)
(* the check that return.                                                  *)
(***************************************************************************)
\* The bodies of the tree: the enclosing statement's column and the first
\* statement, for the body of each If and for the body under each else.
IndentedBodies ==
    LET ifs == { n \in DOMAIN parsed_code : parsed_code[n].type = "If" }
        orelse(n) == SubSeq(parsed_code[n].children, Len(parsed_code[n].body) + 1,
                            Len(parsed_code[n].children))
    IN { [column |-> parsed_code[n].col_offset, first |-> parsed_code[n].body[1]] :
           n \in ifs }
       \cup
       { [column |-> parsed_code[n].col_offset, first |-> orelse(n)[1]] :
           n \in { m \in ifs : /\ orelse(m) # <<>>
                               /\ parsed_code[orelse(m)[1]].col_offset
                                    > parsed_code[m].col_offset } }

IndentationBoundary(iss) ==
    \A b \in IndentedBodies :
        LET first == parsed_code[b.first]
            found == IssuesAt(iss, first.lineno) \cap IndentationMessages
        IN /\ first.col_offset - b.column = 4 => found = {}
           /\ first.col_offset - b.column = 5 => Cardinality(found) = 1

C4_IndentationAgainstEnclosingStatement ==
    [][invoke_indentation_size /\ exc' = "" => IndentationBoundary(issues')]_vars

(***************************************************************************)
(* C5.  Line-length boundary: line i (counted from 1) holds 'line too long *)
(* (L > 79)' if and only if its length L exceeds 79.  A line-length        *)
(* message is only ever found at a line longer than 79, carrying that      *)
(* line's length; the check puts it at every such line; and it stays.      *)
(***************************************************************************)
ExpectedLineTooLong(line) ==
    "line too long (" \o ToString(Len(line)) \o " > 79)"

OnlyLongLinesFlagged(iss) ==
    LET lines == Lines IN
    \A l \in DOMAIN iss : \A m \in iss[l] \cap LineTooLongMessages :
        /\ l \in 1 .. Len(lines)
        /\ Len(lines[l]) > 79
        /\ m = ExpectedLineTooLong(lines[l])

AllLongLinesFlagged(iss) ==
    LET lines == Lines IN
    \A i \in 1 .. Len(lines) :
        Len(lines[i]) > 79 => ExpectedLineTooLong(lines[i]) \in IssuesAt(iss, i)

C5_LineLengthBoundary ==
    /\ []OnlyLongLinesFlagged(issues)
    /\ [][invoke_line_length => AllLongLinesFlagged(issues')]_vars
    /\ [][AllLongLinesFlagged(issues) => AllLongLinesFlagged(issues')]_vars

\* The second line is 80 long and holds exactly its line-length message,
\* and nothing is recorded for line 1.
C5_Witness ==
    /\ Len(Lines) >= 2
    /\ Len(Lines[2]) = 80
    /\ Len(Lines[1]) <= 79
    /\ IssuesAt(issues, 2) = {"line too long (80 > 79)"}
    /\ 1 \notin DOMAIN issues

(***************************************************************************)
(* C6.  Semicolon check: line i holds 'multiple expressions on the same    *)
(* line' if and only if it contains a semicolon.  The message is only ever *)
(* found at a line with a semicolon; the check puts it at every such line; *)
(* and running the check again changes nothing.                            *)
(***************************************************************************)
Semicolons(line) == { k \in DOMAIN line : line[k] = ";" }

OnlySemicolonLinesFlagged(iss) ==
    LET lines == Lines IN
    \A l \in DOMAIN iss :
        SemicolonMessage \in iss[l] => l \in 1 .. Len(lines) /\ Semicolons(lines[l]) # {}

AllSemicolonLinesFlagged(iss) ==
    LET lines == Lines IN
    \A i \in 1 .. Len(lines) :
        Semicolons(lines[i]) # {} => SemicolonMessage \in IssuesAt(iss, i)

C6_SemicolonLinesFlaggedOnce ==
    /\ []OnlySemicolonLinesFlagged(issues)
    /\ [][invoke_forbid_semicolons => AllSemicolonLinesFlagged(issues')]_vars
    /\ [][invoke_forbid_semicolons /\ AllSemicolonLinesFlagged(issues)
            => issues' = issues]_vars

\* A line with two semicolons holds the message, and nothing else.
C6_Witness ==
    LET lines == Lines IN
    \E i \in 1 .. Len(lines) :
        /\ Cardinality(Semicolons(lines[i])) = 2
        /\ IssuesAt(issues, i) = {SemicolonMessage}

(***************************************************************************)
(* C7.  Rules are resolved before any check runs: with a rule name passed  *)
(* that is not one of the eight known rules the analysis fails with a      *)
(* ConfigError and no check runs; with known names only, the rules passed  *)
(* are merged onto the defaults.                                           *)
(***************************************************************************)
UnknownRules == DOMAIN kwargs \ RuleNames

\* The defaults with the rules passed laid over them.
MergedRules ==
    [r \in RuleNames |->
        IF r \in DOMAIN kwargs THEN [none |-> FALSE, value |-> kwargs[r]] ELSE RULES[r]]

C7_RulesResolvedBeforeChecks ==
    /\ UnknownRules # {} =>
          /\ pc \in {"constructed", "raised"}
          /\ pc = "raised" => exc = "ConfigError"
          /\ issues = EmptyIssues
    /\ UnknownRules = {} /\ DOMAIN kwargs # {} /\ pc # "constructed" =>
          /\ ~rules.none
          /\ [r \in RuleNames |->
                IF r \in DOMAIN rules.dict
                THEN [none |-> FALSE, value |-> rules.dict[r]] ELSE RULES[r]] = MergedRules

(***************************************************************************)
(* C8.  Nesting check: it counts the nodes with a `body` field in the      *)
(* subtree of the first top-level statement only, as one total; it adds at *)
(* most one issue; when the count exceeds the limit 3 it adds 'nesting too *)
(* deep (count > 3)' at the line after that of the last such node in walk  *)
(* order, and otherwise adds nothing.                                      *)
(***************************************************************************)
RECURSIVE Subtree(_)
Subtree(id) ==
    {id} \cup UNION { Subtree(parsed_code[id].children[k]) :
                        k \in DOMAIN parsed_code[id].children }

\* The number of parents between id and the root r of a subtree holding id.
RECURSIVE DepthBelow(_, _)
DepthBelow(r, id) ==
    IF r = id THEN 0
    ELSE 1 + DepthBelow(CHOOSE c \in { parsed_code[r].children[k] :
                                         k \in DOMAIN parsed_code[r].children } :
                            id \in Subtree(c), id)

CarriesBody(id) == parsed_code[id].type \in {"Module", "If", "Lambda"}

FirstStatement == parsed_code[ModuleId].body[1]

NestedNodes == { n \in Subtree(FirstStatement) : CarriesBody(n) }

\* Does m start before n in the text?
StartsBefore(m, n) ==
    \/ parsed_code[m].lineno < parsed_code[n].lineno
    \/ /\ parsed_code[m].lineno = parsed_code[n].lineno
       /\ parsed_code[m].col_offset < parsed_code[n].col_offset

\* A breadth-first walk ends with the deepest nodes, in the order of the text.
LastNestedNode ==
    CHOOSE n \in NestedNodes :
        \A m \in NestedNodes \ {n} :
            \/ DepthBelow(FirstStatement, m) < DepthBelow(FirstStatement, n)
            \/ /\ DepthBelow(FirstStatement, m) = DepthBelow(FirstStatement, n)
               /\ StartsBefore(m, n)

TooDeep == ~EmptySource /\ Cardinality(NestedNodes) > 3

ExpectedNesting ==
    "nesting too deep (" \o ToString(Cardinality(NestedNodes)) \o " > 3)"

OnlyExpectedNesting(iss) ==
    \A l \in DOMAIN iss : \A m \in iss[l] \cap NestingMessages :
        /\ TooDeep
        /\ l = parsed_code[LastNestedNode].lineno + 1
        /\ m = ExpectedNesting

NestingAdded(before, after) ==
    IF TooDeep
    THEN LET l == parsed_code[LastNestedNode].lineno + 1 IN
         /\ DOMAIN after = DOMAIN before \cup {l}
         /\ \A k \in DOMAIN after :
               after[k] = IssuesAt(before, k) \cup (IF k = l THEN {ExpectedNesting} ELSE {})
    ELSE after = before

Blocks ==
    SelectSeq(walk(parsed_code, ModuleId),
              LAMBDA n : parsed_code[n].type \in {"Module", "If"}
                         /\ parsed_code[n].body # <<>>)

BlockFirst(k) == parsed_code[parsed_code[Blocks[k]].body[1]]

PreviousOffset(k) == IF k = 1 THEN 0 ELSE BlockFirst(k - 1).col_offset

Excess(k) == BlockFirst(k).col_offset - PreviousOffset(k)

RunningOffsetIssues ==
    LET flagged == { k \in DOMAIN Blocks : Excess(k) > 4 } IN
    [l \in { BlockFirst(k).lineno : k \in flagged } |->
        { "indentation is " \o ToString(Excess(k)) \o " instead of 4" :
            k \in { j \in flagged : BlockFirst(j).lineno = l } }]

C9_IndentationRunningOffset ==
    [][invoke_indentation_size /\ issues = EmptyIssues
         => issues' = RunningOffsetIssues]_vars

(***************************************************************************)
(* C10.  The issue mapping is well formed: every line number in it maps to *)
(* a non-empty set, and every element of every set is one of the four      *)
(* messages, never None.                                                   *)
(***************************************************************************)
KnownMessages ==
    {SemicolonMessage} \cup LineTooLongMessages \cup NestingMessages
        \cup IndentationMessages

C10_IssuesWellFormed ==
    \A l \in DOMAIN issues : issues[l] # {} /\ issues[l] \subseteq KnownMessages

\* One line holds three kinds of message.
C10_Witness ==
    \E l \in DOMAIN issues : Cardinality(issues[l]) = 3

====
